---- MODULE Spec2Model ----
(***************************************************************************)
(* Model of generate_icons.py (RAADS-R PWA icon generator): the command    *)
(* line driver main / generate_icons and the default icon renderer         *)
(* create_default_icon.                                                    *)
(***************************************************************************)
EXTENDS Integers, Sequences, FiniteSets, TLC

\* ------------------------------------------------------------------------
\* Program constants
\* ------------------------------------------------------------------------
ICON_SIZES == <<16, 32, 36, 48, 72, 96, 128, 144, 152, 192, 384, 512>>

NumSizes == Len(ICON_SIZES)

\* Significand width of a Python float (IEEE-754 binary64).
Prec == 53

\* ------------------------------------------------------------------------
\* Python float arithmetic, as far as lines 33-34 use it.  A non-negative
\* float is [int |-> integer part, frac |-> the bits after the binary point].
\* Every operation computes the exact result and rounds it to Prec
\* significant bits, round-half-to-even.
\* ------------------------------------------------------------------------
RECURSIVE BitLen(_)
BitLen(n) == IF n = 0 THEN 0 ELSE 1 + BitLen(n \div 2)

\* Position of the first 1 bit of f, 0 if there is none.
LeadPos(f) ==
    LET ones == {k \in 1..Len(f) : f[k] = 1}
    IN  IF ones = {} THEN 0 ELSE CHOOSE k \in ones : \A j \in ones : k <= j

\* f plus one unit in its last place; c is the carry out of the first place.
IncBits(f) ==
    LET zeros == {k \in 1..Len(f) : f[k] = 0}
    IN  IF zeros = {} THEN [c |-> 1, f |-> [k \in 1..Len(f) |-> 0]]
        ELSE LET p == CHOOSE k \in zeros : \A j \in zeros : j <= k
             IN  [c |-> 0,
                  f |-> [k \in 1..Len(f) |->
                           IF k < p THEN f[k] ELSE IF k = p THEN 1 ELSE 0]]

KeepBits(x) ==
    IF x.int > 0 THEN Prec - BitLen(x.int)
    ELSE LET e == LeadPos(x.frac)
         IN  IF e = 0 THEN 0 ELSE e + Prec - 1

RoundFloat(x) ==
    LET keep == KeepBits(x)
        n    == Len(x.frac)
    IN  IF n <= keep THEN x
        ELSE LET head   == SubSeq(x.frac, 1, keep)
                 guard  == x.frac[keep + 1]
                 sticky == \E k \in (keep + 2)..n : x.frac[k] = 1
                 lsb    == IF keep = 0 THEN x.int % 2 ELSE head[keep]
                 up     == guard = 1 /\ (sticky \/ lsb = 1)
                 inc    == IncBits(head)
             IN  IF up THEN [int |-> x.int + inc.c, frac |-> inc.f]
                 ELSE [int |-> x.int, frac |-> head]

\* 2^k modulo b, by repeated squaring.
RECURSIVE Pow2Mod(_, _)
Pow2Mod(k, b) ==
    IF k = 0 THEN 1 % b
    ELSE LET h == Pow2Mod(k \div 2, b)
         IN  IF k % 2 = 0 THEN (h * h) % b ELSE (2 * h * h) % b

\* Long division: the first n bits of rem/b (rem < b), followed by a sticky
\* bit.  Bit k of rem/b is floor(2 * ((rem * 2^(k-1)) mod b) / b).
DivBits(rem, b, n) ==
    [k \in 1..(n + 1) |->
        IF k <= n THEN (2 * ((rem * Pow2Mod(k - 1, b)) % b)) \div b
        ELSE IF (rem * Pow2Mod(n, b)) % b = 0 THEN 0 ELSE 1]

\* a / b
FloatDiv(a, b) ==
    RoundFloat([int |-> a \div b,
                frac |-> DivBits(a % b, b, Prec + BitLen(b) + 1)])

\* 1 - q, for 0 <= q <= 1
FloatSub1(q) ==
    IF q.int >= 1 THEN [int |-> 0, frac |-> <<>>]
    ELSE LET inv == [k \in 1..Len(q.frac) |-> 1 - q.frac[k]]
             inc == IncBits(inv)
         IN  RoundFloat([int |-> inc.c, frac |-> inc.f])

\* The fraction bits taken eight at a time: Limb(f, j) is the value of bits
\* 8(j-1)+1 .. 8j of f, bits past the end of f being 0.
BitAt(f, k) == IF k <= Len(f) THEN f[k] ELSE 0

Limb(f, j) ==
    LET o == 8 * (j - 1)
    IN  128 * BitAt(f, o + 1) + 64 * BitAt(f, o + 2) + 32 * BitAt(f, o + 3)
        + 16 * BitAt(f, o + 4) + 8 * BitAt(f, o + 5) + 4 * BitAt(f, o + 6)
        + 2 * BitAt(f, o + 7) + BitAt(f, o + 8)

NumLimbs(f) == (Len(f) + 7) \div 8

\* Carry of m * 0.f into limb j from the limbs to its right.
RECURSIVE MulCarry(_, _, _)
MulCarry(m, f, j) ==
    IF j >= NumLimbs(f) THEN 0
    ELSE (m * Limb(f, j + 1) + MulCarry(m, f, j + 1)) \div 256

\* m * 0.f exactly: c is the integer part, f the fraction bits.
MulFrac(m, f) ==
    LET nl   == NumLimbs(f)
        prod == [j \in 1..nl |-> (m * Limb(f, j) + MulCarry(m, f, j)) % 256]
        pow  == <<128, 64, 32, 16, 8, 4, 2, 1>>
    IN  [c |-> MulCarry(m, f, 0),
         f |-> [k \in 1..(8 * nl) |->
                  (prod[(k + 7) \div 8]
                     \div pow[((k - 1) % 8) + 1]) % 2]]

\* m * x, m a small integer
FloatMul(m, x) ==
    LET r == MulFrac(m, x.frac)
    IN  RoundFloat([int |-> m * x.int + r.c, frac |-> r.f])

\* k + x, k a small integer
FloatAdd(k, x) == RoundFloat([int |-> x.int + k, frac |-> x.frac])

\* int(x), x >= 0
Trunc(x) == x.int

\* Mutant of Alpha: the ring index is scaled by 256 instead of 255.
AlphaScaled(i, radius) == Trunc(FloatMul(256, FloatDiv(i, radius)))

\* alpha = int(255 * (i / radius))
Alpha(i, radius) == Trunc(FloatMul(255, FloatDiv(i, radius)))

\* color_intensity = int(13 + (110 * (1 - i / radius)))
ColorIntensity(i, radius) ==
    Trunc(FloatAdd(13, FloatMul(110, FloatSub1(FloatDiv(i, radius)))))

\* ------------------------------------------------------------------------
\* State
\* ------------------------------------------------------------------------
VARIABLES
    \* the process running generate_icons.py
    pc,            \* position in the program
    pilAvailable,  \* whether "from PIL import ..." can succeed
    listSizes,     \* args.list_sizes
    source,        \* args.source (NoSource when the argument is absent)
    mainPath,      \* the branch main took: "none", "list", "missing", "generate"
    idx,           \* 1-based position of the size loop in ICON_SIZES
    icon,          \* the rendered image not yet saved (NoImage when none)
    nextImg,       \* identity of the next image object to be created
    exc,           \* the exception in flight or that ended the process
    failedAt,      \* step at which generate_icons raised (NoStep when none)
    out,           \* lines printed to stdout, in order
    calls,         \* renderer and save calls made by this run, in order
    writes,        \* paths written by this run, in order
    \* the environment
    srcExists,     \* os.path.exists(SourceArg) right now
    dirs,          \* directories on disk
    files,         \* files on disk
    envSteps,      \* changes of srcExists during this run
    run,           \* number of the current run
    atLaunch,      \* what the disk held when this run started, and how the
                   \* previous run ended
    \* one call of create_default_icon
    ipc,           \* position in create_default_icon
    isize,         \* its argument
    center,
    radius,
    ri,            \* loop variable i of the ring loop
    font,
    bbox,
    ops            \* drawing operations applied to the canvas, in order

driverVars == << pc, pilAvailable, listSizes, source, mainPath, idx, icon,
                 nextImg, exc, failedAt, out, calls, writes, srcExists, dirs,
                 files, envSteps, run, atLaunch >>

iconVars == << ipc, isize, center, radius, ri, font, bbox, ops >>

vars == << driverVars, iconVars >>

\* ------------------------------------------------------------------------
\* Bounds of the model
\* ------------------------------------------------------------------------
MaxRuns == 2        \* runs of the program in one behaviour

MaxEnvSteps == 1    \* changes of the source file's existence during a run

MaxBearing == 1     \* largest left/top offset of a measured text box

MaxGlyph == 3       \* largest width/height of a measured text box

\* ------------------------------------------------------------------------
\* create_default_icon(size)
\* ------------------------------------------------------------------------
NoFont == [kind |-> "none", size |-> 0]

\* center = size // 2
Center(size) == size \div 2

\* Mutant of Radius: a margin of 8 instead of 4.
RadiusWide(c) == c - 8

\* radius = center - 4
Radius(c) == c - 4

\* color = (color_intensity, 110, 253, alpha)
RingColor(i, r) == << ColorIntensity(i, r), 110, 253, Alpha(i, r) >>

\* [center - i, center - i, center + i, center + i]
RingBox(c, i) == << c - i, c - i, c + i, c + i >>

\* Mutant of HasText: the threshold itself is excluded.
HasTextAbove(size) == size > 72

\* if size >= 72
HasText(size) == size >= 72

\* font_size = max(size // 8, 12)
FontSize(size) == IF size \div 8 >= 12 THEN size \div 8 ELSE 12

\* text_x = (size - text_width) // 2, and likewise text_y
TextPos(size, extent) == (size - extent) \div 2

\* The boxes draw.textbbox((0, 0), "R", font) may report.
BBoxes ==
    { << l, t, l + w, t + h >> :
        l \in 0..MaxBearing, t \in 0..MaxBearing,
        w \in 1..MaxGlyph, h \in 1..MaxGlyph }

Ellipse(box, fill) == [op |-> "ellipse", at |-> box, fill |-> fill, text |-> ""]

Text(xy, txt, fill) == [op |-> "text", at |-> xy, fill |-> fill, text |-> txt]

\* Entry: a transparent canvas, center and radius, and the first value of
\* range(radius, 0, -1).
IconCall(size) ==
    /\ ipc = "idle"
    /\ isize' = size
    /\ center' = Center(size)
    /\ radius' = Radius(Center(size))
    /\ ri' = Radius(Center(size))
    /\ ops' = << >>
    /\ ipc' = "rings"
    /\ UNCHANGED << font, bbox >>

\* One iteration of the ring loop.
DrawRing ==
    /\ ipc = "rings"
    /\ ri >= 1
    /\ ops' = Append(ops, Ellipse(RingBox(center, ri), RingColor(ri, radius)))
    /\ ri' = ri - 1
    /\ UNCHANGED << ipc, isize, center, radius, font, bbox >>

\* The range is exhausted; test whether the icon is large enough for text.
RingsDone ==
    /\ ipc = "rings"
    /\ ri < 1
    /\ ipc' = IF HasText(isize) THEN "font" ELSE "return"
    /\ UNCHANGED << isize, center, radius, ri, font, bbox, ops >>

\* try: ImageFont.truetype(...)  except: ImageFont.load_default()
LoadFont ==
    /\ ipc = "font"
    /\ \E loaded \in BOOLEAN :
          font' = IF loaded
                  THEN [kind |-> "truetype", size |-> FontSize(isize)]
                  ELSE [kind |-> "default", size |-> 0]
    /\ ipc' = "text"
    /\ UNCHANGED << isize, center, radius, ri, bbox, ops >>

\* Measure "R", then draw its shadow and the glyph itself.
DrawText ==
    /\ ipc = "text"
    /\ \E b \in BBoxes :
          LET text_width  == b[3] - b[1]
              text_height == b[4] - b[2]
              text_x      == TextPos(isize, text_width)
              text_y      == TextPos(isize, text_height)
          IN  /\ bbox' = b
              /\ ops' = ops \o
                    << Text(<< text_x + 1, text_y + 1 >>, "R", << 0, 0, 0, 128 >>),
                       Text(<< text_x, text_y >>, "R", << 255, 255, 255, 255 >>) >>
    /\ ipc' = "return"
    /\ UNCHANGED << isize, center, radius, ri, font >>

\* return img
IconReturn ==
    /\ ipc = "return"
    /\ ipc' = "done"
    /\ UNCHANGED << isize, center, radius, ri, font, bbox, ops >>

\* ------------------------------------------------------------------------
\* Names, paths and printed lines of the batch driver
\* ------------------------------------------------------------------------
\* args.source when the positional argument is absent (None).
NoSource == ""

\* The path given on the command line when there is one.
SourceArg == "logo.png"

NoImage == [mode |-> "none", size |-> 0, img |-> 0]

NoStep == -1

\* Steps of generate_icons: 0 is os.makedirs, k in 1..NumSizes is the k-th
\* size of the loop, NumSizes + 1 is the favicon.
MkdirStep == 0

FavStep == NumSizes + 1

\* The size rendered at step k; the favicon is rendered at 32.
StepSize(k) == IF k <= NumSizes THEN ICON_SIZES[k] ELSE 32

\* Mutant of IconFileName: the size appears once.
IconFileNameShort(size) == "icon-" \o ToString(size) \o ".png"

\* filename = f"icon-{size}x{size}.png"
IconFileName(size) ==
    "icon-" \o ToString(size) \o "x" \o ToString(size) \o ".png"

\* os.path.join(icons_dir, filename)
PathJoin(d, f) == d \o "/" \o f

IconPath(size) == PathJoin("icons", IconFileName(size))

FaviconPath == "favicon.ico"

\* The path written at step k.
StepPath(k) == IF k <= NumSizes THEN IconPath(ICON_SIZES[k]) ELSE FaviconPath

\* Mutant of RenderMode: the source is not tested again.
RenderModeSourceOnly(src, exists) ==
    IF src # NoSource THEN "resize" ELSE "default"

\* if source_path and os.path.exists(source_path)
RenderMode(src, exists) ==
    IF src # NoSource /\ exists THEN "resize" ELSE "default"

RenderFn(mode) ==
    IF mode = "resize" THEN "resize_image" ELSE "create_default_icon"

\* Printed lines.  The emoji that open the error and success lines are left
\* out of the text.
GenHeader == "Generating PWA icons in 'icons' directory..."

ProgressLine(mode, size, src) ==
    IF mode = "resize"
    THEN "  Generating " \o ToString(size) \o "x" \o ToString(size)
         \o " from " \o src
    ELSE "  Generating default " \o ToString(size) \o "x" \o ToString(size)
         \o " icon"

SavedLine(path) == "    Saved: " \o path

FavLine == "  Generating favicon.ico"

SuccessLine ==
    "Successfully generated " \o ToString(NumSizes) \o " icons + favicon!"

FilesHeader == "Generated files:"

SummaryLine(size) ==
    "  - icons/icon-" \o ToString(size) \o "x" \o ToString(size) \o ".png"

SummaryFavLine == "  - favicon.ico"

SizesHeader == "Required PWA icon sizes:"

SizeLine(size) == "  - " \o ToString(size) \o "x" \o ToString(size)

NotFoundLine(src) == "Error: Source file '" \o src \o "' not found"

PilErrorLine == "Error: PIL (Pillow) library required"

PilHintLine == "Install with: pip3 install Pillow"

GenErrorLine(e) == "Error generating icons: " \o e

\* How a call that can fail ends: normally, or by raising.
Outcomes == {"ok", "Exception", "ImportError"}

RenderCall(mode, size, img, seen) ==
    [fn |-> RenderFn(mode), size |-> size, img |-> img, path |-> "",
     srcSeen |-> seen]

SaveCall(image, path) ==
    [fn |-> "save", size |-> image.size, img |-> image.img, path |-> path,
     srcSeen |-> FALSE]

\* An exception leaves generate_icons at step k and reaches main's handlers.
Raise(kind, k) ==
    /\ exc' = kind
    /\ failedAt' = k
    /\ pc' = "except"

\* ------------------------------------------------------------------------
\* The program
\* ------------------------------------------------------------------------
\* Lines 12-14: the module-level imports run before main is even defined.
\* Without Pillow the import raises and nothing is there to catch it.
ImportModule ==
    /\ pc = "import"
    /\ IF pilAvailable
       THEN pc' = "main" /\ exc' = exc
       ELSE pc' = "crash" /\ exc' = "ImportError"
    /\ UNCHANGED << pilAvailable, listSizes, source, mainPath, idx, icon,
                    nextImg, failedAt, out, calls, writes, srcExists, dirs,
                    files, envSteps, run, atLaunch >>

\* Mutant of MainListSizes: the return is missing.
MainListSizesNoReturn ==
    /\ pc = "main"
    /\ listSizes
    /\ out' = out \o << SizesHeader >>
                  \o [k \in 1..NumSizes |-> SizeLine(ICON_SIZES[k])]
    /\ mainPath' = "list"
    /\ pc' = "gen"
    /\ UNCHANGED << pilAvailable, listSizes, source, idx, icon, nextImg, exc,
                    failedAt, calls, writes, srcExists, dirs, files, envSteps,
                    run, atLaunch >>

\* main, --list-sizes: print the sizes and return.
MainListSizes ==
    /\ pc = "main"
    /\ listSizes
    /\ out' = out \o << SizesHeader >>
                  \o [k \in 1..NumSizes |-> SizeLine(ICON_SIZES[k])]
    /\ mainPath' = "list"
    /\ pc' = "exit"
    /\ UNCHANGED << pilAvailable, listSizes, source, idx, icon, nextImg, exc,
                    failedAt, calls, writes, srcExists, dirs, files, envSteps,
                    run, atLaunch >>

\* Mutant of MainSourceMissing: the return is missing.
MainSourceMissingNoReturn ==
    /\ pc = "main"
    /\ ~listSizes
    /\ source # NoSource /\ ~srcExists
    /\ out' = Append(out, NotFoundLine(source))
    /\ mainPath' = "missing"
    /\ pc' = "gen"
    /\ UNCHANGED << pilAvailable, listSizes, source, idx, icon, nextImg, exc,
                    failedAt, calls, writes, srcExists, dirs, files, envSteps,
                    run, atLaunch >>

\* main, a source that is not on disk: print the error and return.
MainSourceMissing ==
    /\ pc = "main"
    /\ ~listSizes
    /\ source # NoSource /\ ~srcExists
    /\ out' = Append(out, NotFoundLine(source))
    /\ mainPath' = "missing"
    /\ pc' = "exit"
    /\ UNCHANGED << pilAvailable, listSizes, source, idx, icon, nextImg, exc,
                    failedAt, calls, writes, srcExists, dirs, files, envSteps,
                    run, atLaunch >>

\* main, otherwise: enter the try block and call generate_icons.
MainGenerate ==
    /\ pc = "main"
    /\ ~listSizes
    /\ ~(source # NoSource /\ ~srcExists)
    /\ mainPath' = "generate"
    /\ pc' = "gen"
    /\ UNCHANGED << pilAvailable, listSizes, source, idx, icon, nextImg, exc,
                    failedAt, out, calls, writes, srcExists, dirs, files,
                    envSteps, run, atLaunch >>

\* generate_icons, lines 78-81: os.makedirs(exist_ok=True) and the header.
GenMakedirs ==
    /\ pc = "gen"
    /\ \E o \in Outcomes :
          IF o = "ok"
          THEN /\ dirs' = dirs \cup {"icons"}
               /\ out' = Append(out, GenHeader)
               /\ idx' = 1
               /\ pc' = "render"
               /\ UNCHANGED << exc, failedAt >>
          ELSE /\ Raise(o, MkdirStep)
               /\ UNCHANGED << dirs, out, idx >>
    /\ UNCHANGED << pilAvailable, listSizes, source, mainPath, icon, nextImg,
                    calls, writes, srcExists, files, envSteps, run, atLaunch >>

\* Loop body, lines 84-89: test the source, print, render.
LoopRender ==
    /\ pc = "render"
    /\ LET size == ICON_SIZES[idx]
           mode == RenderMode(source, srcExists)
       IN  /\ out' = Append(out, ProgressLine(mode, size, source))
           /\ \E o \in Outcomes :
                 IF o = "ok"
                 THEN /\ icon' = [mode |-> mode, size |-> size, img |-> nextImg]
                      /\ nextImg' = nextImg + 1
                      /\ calls' = Append(calls,
                                     RenderCall(mode, size, nextImg, srcExists))
                      /\ pc' = "save"
                      /\ UNCHANGED << exc, failedAt >>
                 ELSE /\ Raise(o, idx)
                      /\ UNCHANGED << icon, nextImg, calls >>
    /\ UNCHANGED << pilAvailable, listSizes, source, mainPath, idx, writes,
                    srcExists, dirs, files, envSteps, run, atLaunch >>

\* Loop body, lines 92-96: save the PNG, print, next size.
LoopSave ==
    /\ pc = "save"
    /\ LET filepath == IconPath(ICON_SIZES[idx])
       IN  \E o \in Outcomes :
             IF o = "ok"
             THEN /\ files' = files \cup {filepath}
                  /\ writes' = Append(writes, filepath)
                  /\ calls' = Append(calls, SaveCall(icon, filepath))
                  /\ out' = Append(out, SavedLine(filepath))
                  /\ idx' = idx + 1
                  /\ pc' = IF idx = NumSizes THEN "favrender" ELSE "render"
                  /\ UNCHANGED << exc, failedAt >>
             ELSE /\ Raise(o, idx)
                  /\ UNCHANGED << files, writes, calls, out, idx >>
    /\ icon' = NoImage
    /\ UNCHANGED << pilAvailable, listSizes, source, mainPath, nextImg,
                    srcExists, dirs, envSteps, run, atLaunch >>

\* Mutant of FavRender: the image rendered for icon-32x32.png is used again.
FavRenderReuse ==
    /\ pc = "favrender"
    /\ out' = Append(out, FavLine)
    /\ icon' = [mode |-> RenderMode(source, srcExists), size |-> 32,
                img |-> calls[3].img]
    /\ pc' = "favsave"
    /\ UNCHANGED << pilAvailable, listSizes, source, mainPath, idx, nextImg,
                    exc, failedAt, calls, writes, srcExists, dirs, files,
                    envSteps, run, atLaunch >>

\* Lines 99-103: print, test the source again, render at 32.
FavRender ==
    /\ pc = "favrender"
    /\ out' = Append(out, FavLine)
    /\ LET mode == RenderMode(source, srcExists)
       IN  \E o \in Outcomes :
             IF o = "ok"
             THEN /\ icon' = [mode |-> mode, size |-> 32, img |-> nextImg]
                  /\ nextImg' = nextImg + 1
                  /\ calls' = Append(calls,
                                 RenderCall(mode, 32, nextImg, srcExists))
                  /\ pc' = "favsave"
                  /\ UNCHANGED << exc, failedAt >>
             ELSE /\ Raise(o, FavStep)
                  /\ UNCHANGED << icon, nextImg, calls >>
    /\ UNCHANGED << pilAvailable, listSizes, source, mainPath, idx, writes,
                    srcExists, dirs, files, envSteps, run, atLaunch >>

\* Lines 105-106: save the favicon, print.
FavSave ==
    /\ pc = "favsave"
    /\ \E o \in Outcomes :
          IF o = "ok"
          THEN /\ files' = files \cup {FaviconPath}
               /\ writes' = Append(writes, FaviconPath)
               /\ calls' = Append(calls, SaveCall(icon, FaviconPath))
               /\ out' = Append(out, SavedLine(FaviconPath))
               /\ pc' = "summary"
               /\ UNCHANGED << exc, failedAt >>
          ELSE /\ Raise(o, FavStep)
               /\ UNCHANGED << files, writes, calls, out >>
    /\ icon' = NoImage
    /\ UNCHANGED << pilAvailable, listSizes, source, mainPath, idx, nextImg,
                    srcExists, dirs, envSteps, run, atLaunch >>

\* Lines 108-112: the summary; generate_icons and main return.
Summary ==
    /\ pc = "summary"
    /\ out' = out \o << "", SuccessLine, "", FilesHeader >>
                  \o [k \in 1..NumSizes |-> SummaryLine(ICON_SIZES[k])]
                  \o << SummaryFavLine >>
    /\ pc' = "exit"
    /\ UNCHANGED << pilAvailable, listSizes, source, mainPath, idx, icon,
                    nextImg, exc, failedAt, calls, writes, srcExists, dirs,
                    files, envSteps, run, atLaunch >>

\* except ImportError: the first handler, tried first.
HandleImportError ==
    /\ pc = "except"
    /\ exc = "ImportError"
    /\ out' = out \o << PilErrorLine, PilHintLine >>
    /\ pc' = "exit"
    /\ UNCHANGED << pilAvailable, listSizes, source, mainPath, idx, icon,
                    nextImg, exc, failedAt, calls, writes, srcExists, dirs,
                    files, envSteps, run, atLaunch >>

\* Mutant of HandleException: the exception is not caught.
HandleExceptionPropagates ==
    /\ pc = "except"
    /\ exc # "ImportError"
    /\ pc' = "crash"
    /\ UNCHANGED << pilAvailable, listSizes, source, mainPath, idx, icon,
                    nextImg, exc, failedAt, out, calls, writes, srcExists,
                    dirs, files, envSteps, run, atLaunch >>

\* except Exception as e: every other exception.
HandleException ==
    /\ pc = "except"
    /\ exc # "ImportError"
    /\ out' = Append(out, GenErrorLine(exc))
    /\ pc' = "exit"
    /\ UNCHANGED << pilAvailable, listSizes, source, mainPath, idx, icon,
                    nextImg, exc, failedAt, calls, writes, srcExists, dirs,
                    files, envSteps, run, atLaunch >>

\* ------------------------------------------------------------------------
\* The environment
\* ------------------------------------------------------------------------
Running == pc \notin {"exit", "crash"}

\* Another process creates or removes the source file while the program runs.
EnvSourceChange ==
    /\ Running
    /\ source # NoSource
    /\ envSteps < MaxEnvSteps
    /\ srcExists' = ~srcExists
    /\ envSteps' = envSteps + 1
    /\ UNCHANGED << pc, pilAvailable, listSizes, source, mainPath, idx, icon,
                    nextImg, exc, failedAt, out, calls, writes, dirs, files,
                    run, atLaunch >>

\* The run that just ended was a run without source that wrote everything.
NoSourceSuccess ==
    pc = "exit" /\ mainPath = "generate" /\ failedAt = NoStep
    /\ source = NoSource

\* The program is started again in the directory the last run left behind.
Relaunch ==
    /\ ~Running
    /\ run < MaxRuns
    /\ run' = run + 1
    /\ pilAvailable' \in BOOLEAN
    /\ listSizes' \in BOOLEAN
    /\ source' \in {NoSource, SourceArg}
    /\ srcExists' \in BOOLEAN
    /\ atLaunch' = [files |-> files, dirs |-> dirs,
                    afterNoSourceSuccess |-> NoSourceSuccess]
    /\ pc' = "import"
    /\ mainPath' = "none"
    /\ idx' = 0
    /\ icon' = NoImage
    /\ nextImg' = 1
    /\ exc' = "none"
    /\ failedAt' = NoStep
    /\ out' = << >>
    /\ calls' = << >>
    /\ writes' = << >>
    /\ envSteps' = 0
    /\ UNCHANGED << dirs, files >>

\* ------------------------------------------------------------------------
\* Specifications
\* ------------------------------------------------------------------------
InitProcess ==
    /\ pc = "import"
    /\ mainPath = "none"
    /\ idx = 0
    /\ icon = NoImage
    /\ nextImg = 1
    /\ exc = "none"
    /\ failedAt = NoStep
    /\ out = << >>
    /\ calls = << >>
    /\ writes = << >>
    /\ envSteps = 0
    /\ run = 1
    /\ dirs = {}
    /\ files = {}
    /\ atLaunch = [files |-> {}, dirs |-> {}, afterNoSourceSuccess |-> FALSE]

InitIcon ==
    /\ ipc = "idle"
    /\ isize = 0
    /\ center = 0
    /\ radius = 0
    /\ ri = 0
    /\ font = NoFont
    /\ bbox = << 0, 0, 0, 0 >>
    /\ ops = << >>

\* The program, run from the command line with any arguments.
Init ==
    /\ InitProcess
    /\ pilAvailable \in BOOLEAN
    /\ listSizes \in BOOLEAN
    /\ source \in {NoSource, SourceArg}
    /\ srcExists \in BOOLEAN
    /\ InitIcon

Next ==
    \/ ImportModule /\ UNCHANGED iconVars
    \/ MainListSizes /\ UNCHANGED iconVars
    \/ MainSourceMissing /\ UNCHANGED iconVars
    \/ MainGenerate /\ UNCHANGED iconVars
    \/ GenMakedirs /\ UNCHANGED iconVars
    \/ LoopRender /\ UNCHANGED iconVars
    \/ LoopSave /\ UNCHANGED iconVars
    \/ FavRender /\ UNCHANGED iconVars
    \/ FavSave /\ UNCHANGED iconVars
    \/ Summary /\ UNCHANGED iconVars
    \/ HandleImportError /\ UNCHANGED iconVars
    \/ HandleException /\ UNCHANGED iconVars
    \/ EnvSourceChange /\ UNCHANGED iconVars
    \/ Relaunch /\ UNCHANGED iconVars

Spec == Init /\ [][Next]_vars

\* create_default_icon, called with any size of ICON_SIZES.
IconInit ==
    /\ InitProcess
    /\ pilAvailable = TRUE
    /\ listSizes = FALSE
    /\ source = NoSource
    /\ srcExists = FALSE
    /\ InitIcon

IconNext ==
    \/ (\E k \in 1..NumSizes : IconCall(ICON_SIZES[k])) /\ UNCHANGED driverVars
    \/ DrawRing /\ UNCHANGED driverVars
    \/ RingsDone /\ UNCHANGED driverVars
    \/ LoadFont /\ UNCHANGED driverVars
    \/ DrawText /\ UNCHANGED driverVars
    \/ IconReturn /\ UNCHANGED driverVars

IconSpec == IconInit /\ [][IconNext]_vars

\* ------------------------------------------------------------------------
\* Properties of the batch driver (specification Spec)
\* ------------------------------------------------------------------------
\* The thirteen paths of a complete batch, in the order they are written.
ExpectedPaths ==
    << "icons/icon-16x16.png", "icons/icon-32x32.png",
       "icons/icon-36x36.png", "icons/icon-48x48.png",
       "icons/icon-72x72.png", "icons/icon-96x96.png",
       "icons/icon-128x128.png", "icons/icon-144x144.png",
       "icons/icon-152x152.png", "icons/icon-192x192.png",
       "icons/icon-384x384.png", "icons/icon-512x512.png", "favicon.ico" >>

\* The twelve lines that list the sizes.
ExpectedSizeLines ==
    << "  - 16x16", "  - 32x32", "  - 36x36", "  - 48x48", "  - 72x72",
       "  - 96x96", "  - 128x128", "  - 144x144", "  - 152x152",
       "  - 192x192", "  - 384x384", "  - 512x512" >>

Range(q) == { q[k] : k \in 1..Len(q) }

Last(q) == q[Len(q)]

IsRender(c) == c.fn \in {"resize_image", "create_default_icon"}

\* C1: a run without source argument in which no step fails writes exactly
\* the 12 PNGs icons/icon-{s}x{s}.png and favicon.ico, nothing else; its
\* summary lists exactly those 13 paths; and a second such run, started on
\* the files the first left, ends with the identical file set.
C1_NoSourceRunWritesThirteen ==
    (pc = "exit" /\ mainPath = "generate" /\ source = NoSource
       /\ failedAt = NoStep)
    => /\ writes = ExpectedPaths
       /\ files = atLaunch.files \cup Range(ExpectedPaths)
       /\ Len(out) >= 14
       /\ out[Len(out) - 13] = FilesHeader
       /\ SubSeq(out, Len(out) - 12, Len(out))
            = [k \in 1..13 |-> "  - " \o ExpectedPaths[k]]
       /\ (atLaunch.afterNoSourceSuccess => files = atLaunch.files)

C1_Witness ==
    /\ pc = "exit" /\ mainPath = "generate" /\ source = NoSource
    /\ failedAt = NoStep
    /\ atLaunch.afterNoSourceSuccess
    /\ Cardinality(files) = 13

\* C2: main with a source path that is not on disk, and without
\* --list-sizes, prints the source-not-found line and returns: nothing is
\* created or written and no renderer is called.
C2_MissingSourceWritesNothing ==
    [][ (pc = "main" /\ ~listSizes /\ source # NoSource /\ ~srcExists
           /\ pc' # pc)
        => /\ pc' = "exit"
           /\ out' = << "Error: Source file 'logo.png' not found" >>
           /\ files' = files /\ dirs' = dirs
           /\ files' = atLaunch.files /\ dirs' = atLaunch.dirs
           /\ calls' = << >> /\ writes' = << >>
           /\ exc' = "none" ]_vars

C2_Witness ==
    /\ pc = "exit" /\ mainPath = "missing"
    /\ source = SourceArg /\ ~srcExists /\ ~listSizes
    /\ Len(out) = 1

\* C3: main with --list-sizes, whatever the source argument, prints the 12
\* sizes in the order of ICON_SIZES, one per line, and returns without
\* creating the directory, writing a file or rendering an icon.
C3_ListSizesOnlyPrints ==
    [][ (pc = "main" /\ listSizes /\ pc' # pc)
        => /\ pc' = "exit"
           /\ out' = << "Required PWA icon sizes:" >> \o ExpectedSizeLines
           /\ files' = atLaunch.files /\ dirs' = atLaunch.dirs
           /\ calls' = << >> /\ writes' = << >>
           /\ exc' = "none" ]_vars

C3_Witness ==
    /\ pc = "exit" /\ mainPath = "list"
    /\ source = SourceArg /\ ~srcExists
    /\ Len(out) = 13

\* C4: when rendering or saving raises at step k, the batch stops there:
\* the files of the steps before k are on disk, no file of step k or of a
\* later step is written, no success summary is printed, and main catches
\* the exception, prints an error line and returns.
C4_FailureAbortsBatch ==
    (failedAt >= 1)
    => /\ writes = SubSeq(ExpectedPaths, 1, failedAt - 1)
       /\ files = atLaunch.files \cup Range(SubSeq(ExpectedPaths, 1, failedAt - 1))
       /\ SuccessLine \notin Range(out)
       /\ FilesHeader \notin Range(out)
       /\ pc \in {"except", "exit"}
       /\ pc = "exit"
            => Last(out) \in {"Install with: pip3 install Pillow",
                              "Error generating icons: Exception"}

C4_Witness ==
    /\ pc = "exit" /\ failedAt = 5 /\ exc = "Exception"
    /\ Len(writes) = 4
    /\ icon = NoImage

\* C5: without PIL the program prints the install hint and returns
\* normally; the failure never ends the process as an unhandled exception.
C5_MissingPilIsReported ==
    (~pilAvailable /\ ~Running)
    => /\ pc = "exit"
       /\ PilHintLine \in Range(out)

\* C6: the sizes are rendered and saved one after the other in the order
\* of ICON_SIZES, each saved before the next is rendered; the favicon comes
\* from one more renderer call at size 32, made after the 12 PNGs are
\* written, and is never the image saved as icon-32x32.png.
C6_SequentialThenFavicon ==
    /\ Len(calls) <= 2 * FavStep
    /\ \A k \in 1..Len(calls) :
          IF k % 2 = 1
          THEN /\ IsRender(calls[k])
               /\ calls[k].size = (ICON_SIZES \o << 32 >>)[(k + 1) \div 2]
               /\ \A j \in 1..(k - 1) : calls[j].img # calls[k].img
          ELSE /\ calls[k].fn = "save"
               /\ calls[k].path = ExpectedPaths[k \div 2]
               /\ calls[k].img = calls[k - 1].img
    /\ writes = SubSeq(ExpectedPaths, 1, Len(calls) \div 2)
    /\ Len(calls) = 2 * FavStep
         => /\ calls[2 * FavStep].path = "favicon.ico"
            /\ calls[2 * FavStep].img # calls[4].img
            /\ calls[4].path = "icons/icon-32x32.png"

C6_Witness ==
    /\ pc = "exit" /\ Len(calls) = 26
    /\ calls[26].path = "favicon.ico"

\* C10 as stated: in a run whose source existed when main tested it, all
\* 13 renderings are resized from the source and no default icon is made,
\* even if the file's existence changes during the batch.
C10_AllRenderingsResized ==
    (mainPath = "generate" /\ source # NoSource)
    => \A k \in 1..Len(calls) :
          IsRender(calls[k]) => calls[k].fn = "resize_image"

\* C10 as amended: in such a run each rendering is resized from the source
\* exactly when the source exists at that rendering's own test, and is a
\* default icon otherwise; all are resized when the existence of the file
\* does not change during the run.
C10_ModeFollowsEachTest ==
    (mainPath = "generate" /\ source # NoSource)
    => /\ \A k \in 1..Len(calls) :
            IsRender(calls[k])
            => (calls[k].fn = "resize_image" <=> calls[k].srcSeen)
       /\ envSteps = 0
            => \A k \in 1..Len(calls) :
                  IsRender(calls[k]) => calls[k].fn = "resize_image"

C10_Witness ==
    /\ mainPath = "generate" /\ source # NoSource /\ pc = "exit"
    /\ failedAt = NoStep
    /\ calls[1].fn = "resize_image"
    /\ calls[25].fn = "create_default_icon"

\* ------------------------------------------------------------------------
\* Properties of create_default_icon (specification IconSpec)
\* ------------------------------------------------------------------------
IsTextOp(o) == o.op = "text"

IsEllipseOp(o) == o.op = "ellipse"

\* max(size // 8, 12) for the sizes that carry text.
ExpectedFontSize ==
    72 :> 12 @@ 96 :> 12 @@ 128 :> 16 @@ 144 :> 18 @@ 152 :> 19 @@ 192 :> 24
    @@ 384 :> 48 @@ 512 :> 64

\* n / d rounded to the nearest integer, halves to even (Python's round).
RoundDiv(n, d) ==
    LET q == n \div d
        r == 2 * (n % d)
    IN  IF r > d \/ (r = d /\ q % 2 = 1) THEN q + 1 ELSE q

\* The ring drawn by the k-th ellipse.
RingOf(k) == radius - k + 1

\* C7: create_default_icon draws no glyph when size < 72; when size >= 72
\* it draws exactly two texts "R", first the shadow at the centred position
\* plus (1, 1) in black with alpha 128, then the glyph at the centred
\* position in opaque white, the centred position being
\* ((size - text_width) // 2, (size - text_height) // 2) and the font size
\* max(size // 8, 12); when the preferred font cannot be loaded the
\* built-in font is used and the render goes on.
C7_GlyphOnlyOnLargeIcons ==
    LET texts == SelectSeq(ops, IsTextOp)
        cx    == (isize - (bbox[3] - bbox[1])) \div 2
        cy    == (isize - (bbox[4] - bbox[2])) \div 2
    IN  /\ isize < 72 => (texts = << >> /\ ipc \notin {"font", "text"})
        /\ ipc \in {"idle", "rings", "font", "text"} => texts = << >>
        /\ ipc = "text" => font.kind \in {"truetype", "default"}
        /\ (ipc \in {"return", "done"} /\ isize >= 72)
             => /\ texts = << [op |-> "text", at |-> << cx + 1, cy + 1 >>,
                                fill |-> << 0, 0, 0, 128 >>, text |-> "R"],
                               [op |-> "text", at |-> << cx, cy >>,
                                fill |-> << 255, 255, 255, 255 >>,
                                text |-> "R"] >>
                /\ SubSeq(ops, Len(ops) - 1, Len(ops)) = texts
                /\ font.kind \in {"truetype", "default"}
                /\ font.kind = "truetype" => font.size = ExpectedFontSize[isize]

C7_Witness ==
    /\ ipc = "done" /\ isize = 72 /\ font.kind = "default"
    /\ Len(SelectSeq(ops, IsTextOp)) = 2
    /\ bbox = << 1, 0, 3, 3 >>

\* C8 as stated: ring i has alpha round(255 * i / radius), alpha stays in
\* 1..255 and the red channel in 13..123.
C8_AlphaIsRounded ==
    \A k \in 1..Len(ops) :
        IsEllipseOp(ops[k])
        => /\ ops[k].fill[4] = RoundDiv(255 * RingOf(k), radius)
           /\ ops[k].fill[4] \in 1..255
           /\ ops[k].fill[1] \in 13..123

\* C8 as amended: ring i has alpha 255 * i / radius truncated to an
\* integer; its red channel is 13 + 110 * (1 - i / radius) truncated (one
\* less where the float product falls just short of an integer), 13 at the
\* rim; alpha stays in 1..255 and the red channel in 13..123.
C8_AlphaIsTruncated ==
    \A k \in 1..Len(ops) :
        IsEllipseOp(ops[k])
        => LET i     == RingOf(k)
               exact == 13 + (110 * (radius - i)) \div radius
           IN  /\ ops[k].fill[4] = (255 * i) \div radius
               /\ ops[k].fill[4] \in 1..255
               /\ ops[k].fill[1] \in {exact - 1, exact}
               /\ i = radius => ops[k].fill[1] = 13
               /\ ops[k].fill[1] \in 13..123
               /\ ops[k].fill[2] = 110 /\ ops[k].fill[3] = 253

C8_Witness ==
    /\ ipc = "done" /\ isize = 16
    /\ ops[3].fill[4] = 127
    /\ ops[4].fill = << 95, 110, 253, 63 >>

\* C9: for every size of ICON_SIZES radius = size // 2 - 4 is at least 1, so
\* no ring divides by zero; exactly radius filled circles are drawn, in
\* strictly decreasing radius order, and each circle's bounding box
\* [center - i, center + i] lies within the size x size canvas.
C9_RingsFitCanvas ==
    ipc # "idle"
    => /\ center = isize \div 2
       /\ radius = isize \div 2 - 4
       /\ radius >= 1
       /\ ri \in 0..radius
       /\ Len(SelectSeq(ops, IsEllipseOp)) = radius - ri
       /\ ipc # "rings" => ri = 0
       /\ \A k \in 1..(radius - ri) :
             /\ IsEllipseOp(ops[k])
             /\ ops[k].at = << center - RingOf(k), center - RingOf(k),
                               center + RingOf(k), center + RingOf(k) >>
             /\ RingOf(k) >= 1
             /\ 0 <= center - RingOf(k)
             /\ center + RingOf(k) <= isize - 1

C9_Witness ==
    /\ ipc = "done" /\ isize = 16 /\ radius = 4
    /\ Len(ops) = 4
    /\ ops[1].at = << 4, 4, 12, 12 >>
    /\ ops[4].at = << 7, 7, 9, 9 >>

====
